---- MODULE Spec2Model ----
(***************************************************************************)
(* Verification model of direct3d_s2/models/autoencoders/dense_vae.py:     *)
(* the residual / resample blocks, the encoder and decoder assembly, the   *)
(* precision conversion of both, and the voxel-to-mesh extraction of       *)
(* DenseShapeVAE.                                                          *)
(*                                                                         *)
(* Tensors are modelled by what the checked properties read of them:       *)
(*   - a shape <<C, D, H, W>> (the batch axis is carried separately),      *)
(*   - a numeric type "float16" / "float32",                               *)
(*   - integer values on a D x 1 x 1 volume (residual block arithmetic),   *)
(*   - per-voxel logits on a D x 2 x 2 volume (mesh extraction).           *)
(* A failed call is the value ERR (forward) or a record with ok = FALSE    *)
(* (construction).                                                         *)
(***************************************************************************)
EXTENDS Integers, Sequences, FiniteSets, TLC

\* ------------------------------------------------------------------ bounds
MaxStages == 3      \* longest channel-width list
MaxRes == 2         \* largest residual-block count per stage
MaxSize == 4        \* largest spatial size of an input axis
MaxLen == 2         \* longest D axis of a residual-block input
MaxSlices == 6      \* largest batch * depth of a logit tensor
MaxR == 2           \* largest voxel_resolution argument

Widths == {1, 2}                  \* channel widths drawn for the configurations
ERR == <<>>                       \* a forward call that raised

\* =====================================================================
\* Library layers (torch.nn) as the source calls them
\* =====================================================================

\* nn.Conv3d output size along one axis; a kernel larger than the padded
\* input raises.
ConvOutSize(n, kernel, stride, padding) ==
    IF n + 2 * padding < kernel THEN 0
    ELSE ((n + 2 * padding - kernel) \div stride) + 1

\* nn.Conv3d(cin, cout, kernel, stride, padding) applied to a shape.
Conv3dShape(cin, cout, kernel, stride, padding, s) ==
    IF s = ERR THEN ERR
    ELSE IF s[1] # cin THEN ERR
    ELSE IF \E a \in 2..4 : ConvOutSize(s[a], kernel, stride, padding) < 1 THEN ERR
    ELSE << cout,
            ConvOutSize(s[2], kernel, stride, padding),
            ConvOutSize(s[3], kernel, stride, padding),
            ConvOutSize(s[4], kernel, stride, padding) >>

\* F.avg_pool3d(x, 2): kernel 2, stride 2, no padding, channels kept.
AvgPool3dShape(s) ==
    IF s = ERR THEN ERR
    ELSE IF \E a \in 2..4 : s[a] < 2 THEN ERR
    ELSE << s[1], s[2] \div 2, s[3] \div 2, s[4] \div 2 >>

\* F.interpolate(x, scale_factor=2, mode="nearest").
InterpolateShape(s) ==
    IF s = ERR THEN ERR ELSE << s[1], 2 * s[2], 2 * s[3], 2 * s[4] >>

\* pixel_shuffle_3d(x, 2): the 8-fold channel multiplier becomes a 2x2x2
\* spatial block.
pixel_shuffle_3d(s) ==
    IF s = ERR THEN ERR
    ELSE IF s[1] % 8 # 0 THEN ERR
    ELSE << s[1] \div 8, 2 * s[2], 2 * s[3], 2 * s[4] >>

\* norm_layer(norm_type, channels)
norm_layer(norm_type, channels) ==
    IF norm_type = "group" THEN [ok |-> TRUE, norm |-> "GroupNorm32", channels |-> channels]
    ELSE IF norm_type = "layer" THEN [ok |-> TRUE, norm |-> "ChannelLayerNorm32", channels |-> channels]
    ELSE [ok |-> FALSE, error |-> "ValueError"]

\* A normalization layer keeps the shape.
NormShape(s) == s

\* =====================================================================
\* ResBlock3d, DownsampleBlock3d, UpsampleBlock3d: construction and shape
\* =====================================================================

\* ResBlock3d.__init__ (norm_type defaults to "layer")
ResBlock3d(channels, out_channels) ==
    LET oc == IF out_channels = 0 THEN channels ELSE out_channels
    IN  [ok |-> TRUE, kind |-> "res", in_channels |-> channels, out_channels |-> oc,
         has_conv |-> (channels # oc), dtype |-> "float32"]

\* ResBlock3d.forward on a shape
ResBlock3dShape(b, s) ==
    LET h1 == Conv3dShape(b.in_channels, b.out_channels, 3, 1, 1, NormShape(s))
        h2 == Conv3dShape(b.out_channels, b.out_channels, 3, 1, 1, NormShape(h1))
        sk == IF b.has_conv THEN Conv3dShape(b.in_channels, b.out_channels, 1, 1, 0, s) ELSE s
    IN  IF h2 = ERR \/ sk = ERR \/ h2 # sk THEN ERR ELSE h2

DownsampleNoChannelCheck(in_channels, out_channels, mode) ==
    IF mode \notin {"conv", "avgpool"} THEN [ok |-> FALSE, error |-> "AssertionError"]
    ELSE [ok |-> TRUE, kind |-> "down", in_channels |-> in_channels,
          out_channels |-> out_channels, has_conv |-> (mode = "conv"), dtype |-> "float32"]

\* DownsampleBlock3d.__init__
DownsampleBlock3d(in_channels, out_channels, mode) ==
    IF mode \notin {"conv", "avgpool"} THEN [ok |-> FALSE, error |-> "AssertionError"]
    ELSE IF mode = "conv" THEN
        [ok |-> TRUE, kind |-> "down", in_channels |-> in_channels,
         out_channels |-> out_channels, has_conv |-> TRUE, dtype |-> "float32"]
    ELSE IF in_channels # out_channels THEN [ok |-> FALSE, error |-> "AssertionError"]
    ELSE [ok |-> TRUE, kind |-> "down", in_channels |-> in_channels,
          out_channels |-> out_channels, has_conv |-> FALSE, dtype |-> "float32"]

\* DownsampleBlock3d.forward on a shape
DownsampleShape(b, s) ==
    IF b.has_conv THEN Conv3dShape(b.in_channels, b.out_channels, 2, 2, 0, s)
    ELSE AvgPool3dShape(s)

\* UpsampleBlock3d.__init__
UpsampleBlock3d(in_channels, out_channels, mode) ==
    IF mode \notin {"conv", "nearest"} THEN [ok |-> FALSE, error |-> "AssertionError"]
    ELSE IF mode = "conv" THEN
        [ok |-> TRUE, kind |-> "up", in_channels |-> in_channels,
         out_channels |-> out_channels, has_conv |-> TRUE, dtype |-> "float32"]
    ELSE IF in_channels # out_channels THEN [ok |-> FALSE, error |-> "AssertionError"]
    ELSE [ok |-> TRUE, kind |-> "up", in_channels |-> in_channels,
          out_channels |-> out_channels, has_conv |-> FALSE, dtype |-> "float32"]

UpsampleShapeNoShuffle(b, s) ==
    IF b.has_conv
    THEN Conv3dShape(b.in_channels, b.out_channels, 3, 1, 1, s)
    ELSE InterpolateShape(s)

\* UpsampleBlock3d.forward on a shape
UpsampleShape(b, s) ==
    IF b.has_conv
    THEN pixel_shuffle_3d(Conv3dShape(b.in_channels, b.out_channels * 8, 3, 1, 1, s))
    ELSE InterpolateShape(s)

\* nn.Conv3d(cin, cout, 3, padding=1) as a layer of its own (input_layer)
Conv3dLayer(cin, cout) ==
    [ok |-> TRUE, kind |-> "conv", in_channels |-> cin, out_channels |-> cout,
     has_conv |-> TRUE, dtype |-> "float32"]

\* nn.Sequential(norm_layer(norm_type, cin), nn.SiLU(), nn.Conv3d(cin, cout, 3, padding=1))
OutLayer(norm_type, cin, cout) ==
    IF ~norm_layer(norm_type, cin).ok THEN norm_layer(norm_type, cin)
    ELSE [ok |-> TRUE, kind |-> "out", in_channels |-> cin, out_channels |-> cout,
          has_conv |-> TRUE, dtype |-> "float32"]

\* The shape a layer returns for an input of shape s.
BlockShape(b, s) ==
    IF s = ERR THEN ERR
    ELSE IF b.kind = "res" THEN ResBlock3dShape(b, s)
    ELSE IF b.kind = "down" THEN DownsampleShape(b, s)
    ELSE IF b.kind = "up" THEN UpsampleShape(b, s)
    ELSE IF b.kind = "conv" THEN Conv3dShape(b.in_channels, b.out_channels, 3, 1, 1, s)
    ELSE Conv3dShape(b.in_channels, b.out_channels, 3, 1, 1, NormShape(s))

\* A layer holds parameters unless it is a pooling / interpolation resample.
HasParams(b) == b.kind \in {"res", "conv", "out"} \/ b.has_conv

\* A tensor is [ok |-> TRUE, s |-> shape, t |-> dtype]; a raised call is
\* [ok |-> FALSE, error |-> ...].
Tensor(s, t) == [ok |-> TRUE, s |-> s, t |-> t]
TypeError == [ok |-> FALSE, error |-> "RuntimeError: input type and weight type differ"]
ShapeError == [ok |-> FALSE, error |-> "RuntimeError: shape"]

\* block(h): a convolution whose parameters are of another numeric type than
\* its input raises; the 32-bit norms and SiLU return the type they are given.
BlockForward(b, x) ==
    IF ~x.ok THEN x
    ELSE IF HasParams(b) /\ b.dtype # x.t THEN TypeError
    ELSE IF BlockShape(b, x.s) = ERR THEN ShapeError
    ELSE Tensor(BlockShape(b, x.s), x.t)

\* for block in blocks: h = block(h)   (also nn.Sequential); the tensors
\* before the first block and after every block, in order.
RECURSIVE ForwardTrace(_, _)
ForwardTrace(blocks, x) ==
    IF blocks = <<>> THEN <<x>>
    ELSE <<x>> \o ForwardTrace(Tail(blocks), BlockForward(Head(blocks), x))

SeqForward(blocks, x) ==
    LET tr == ForwardTrace(blocks, x) IN tr[Len(tr)]

\* =====================================================================
\* SparseStructureEncoder / SparseStructureDecoder
\* =====================================================================

\* [ResBlock3d(ch, ch) for _ in range(n)]
ResStack(ch, n) == [k \in 1..n |-> ResBlock3d(ch, ch)]

EncoderBlocksEveryStage(channels, num_res_blocks) ==
    LET RECURSIVE Build(_)
        Build(i) ==
            IF i > Len(channels) THEN <<>>
            ELSE ResStack(channels[i], num_res_blocks)
                 \o << DownsampleBlock3d(channels[i],
                          channels[IF i < Len(channels) THEN i + 1 ELSE i], "conv") >>
                 \o Build(i + 1)
    IN  Build(1)

\* SparseStructureEncoder.__init__: the loop that fills self.blocks
EncoderBlocks(channels, num_res_blocks) ==
    LET RECURSIVE Build(_)
        Build(i) ==
            IF i > Len(channels) THEN <<>>
            ELSE ResStack(channels[i], num_res_blocks)
                 \o (IF i < Len(channels)
                     THEN << DownsampleBlock3d(channels[i], channels[i + 1], "conv") >>
                     ELSE <<>>)
                 \o Build(i + 1)
    IN  Build(1)

\* SparseStructureDecoder.__init__: the loop that fills self.blocks
DecoderBlocks(channels, num_res_blocks) ==
    LET RECURSIVE Build(_)
        Build(i) ==
            IF i > Len(channels) THEN <<>>
            ELSE ResStack(channels[i], num_res_blocks)
                 \o (IF i < Len(channels)
                     THEN << UpsampleBlock3d(channels[i], channels[i + 1], "conv") >>
                     ELSE <<>>)
                 \o Build(i + 1)
    IN  Build(1)

\* convert_module_to_f16 / convert_module_to_f32 on one layer
convert_module_to_f16(l) == [l EXCEPT !.dtype = "float16"]
convert_module_to_f32(l) == [l EXCEPT !.dtype = "float32"]

\* module.apply(convert_module_to_f16) / module.apply(convert_module_to_f32)
\* on a ModuleList / Sequential: every member is converted
ApplyF16(layers) == [k \in DOMAIN layers |-> convert_module_to_f16(layers[k])]
ApplyF32(layers) == [k \in DOMAIN layers |-> convert_module_to_f32(layers[k])]

EncoderConvertWholeModule(e) ==
    [e EXCEPT !.use_fp16 = TRUE, !.dtype = "float16",
              !.input_layer = convert_module_to_f16(@),
              !.blocks = ApplyF16(@),
              !.middle_block = ApplyF16(@),
              !.out_layer = convert_module_to_f16(@)]

\* SparseStructureEncoder.convert_to_fp16
EncoderConvertToFp16(e) ==
    [e EXCEPT !.use_fp16 = TRUE, !.dtype = "float16",
              !.blocks = ApplyF16(@),
              !.middle_block = ApplyF16(@)]

\* SparseStructureEncoder.convert_to_fp32
EncoderConvertToFp32(e) ==
    [e EXCEPT !.use_fp16 = FALSE, !.dtype = "float32",
              !.blocks = ApplyF32(@),
              !.middle_block = ApplyF32(@)]

\* SparseStructureEncoder.__init__
SparseStructureEncoder(in_channels, latent_channels, num_res_blocks, channels, num_res_blocks_middle, norm_type, use_fp16) ==
    LET last == channels[Len(channels)]
        out  == OutLayer(norm_type, last, latent_channels * 2)
        e == [ok |-> TRUE, in_channels |-> in_channels, latent_channels |-> latent_channels,
              num_res_blocks |-> num_res_blocks, channels |-> channels,
              use_fp16 |-> use_fp16,
              dtype |-> IF use_fp16 THEN "float16" ELSE "float32",
              input_layer |-> Conv3dLayer(in_channels, channels[1]),
              blocks |-> EncoderBlocks(channels, num_res_blocks),
              middle_block |-> ResStack(last, num_res_blocks_middle),
              out_layer |-> out]
    IN  IF ~out.ok THEN out
        ELSE IF use_fp16 THEN EncoderConvertToFp16(e) ELSE e

\* SparseStructureEncoder.forward
EncoderForward(e, x) ==
    LET h0 == BlockForward(e.input_layer, x)
        h1 == SeqForward(e.blocks, h0)
        h2 == SeqForward(e.middle_block, h1)
    IN  BlockForward(e.out_layer, h2)

\* The tensors entering and leaving each member of encoder.blocks.
EncoderTrace(e, x) == ForwardTrace(e.blocks, BlockForward(e.input_layer, x))

\* SparseStructureDecoder.convert_to_fp16: self.apply(convert_module_to_f16)
DecoderConvertToFp16(d) ==
    [d EXCEPT !.use_fp16 = TRUE, !.dtype = "float16",
              !.input_layer = convert_module_to_f16(@),
              !.middle_block = ApplyF16(@),
              !.blocks = ApplyF16(@),
              !.out_layer = convert_module_to_f16(@)]

\* SparseStructureDecoder.convert_to_fp32
DecoderConvertToFp32(d) ==
    [d EXCEPT !.use_fp16 = FALSE, !.dtype = "float32",
              !.blocks = ApplyF32(@),
              !.middle_block = ApplyF32(@)]

\* SparseStructureDecoder.__init__
SparseStructureDecoder(out_channels, latent_channels, num_res_blocks, channels, num_res_blocks_middle, norm_type, use_fp16) ==
    LET last == channels[Len(channels)]
        out  == OutLayer(norm_type, last, out_channels)
        d == [ok |-> TRUE, out_channels |-> out_channels, latent_channels |-> latent_channels,
              num_res_blocks |-> num_res_blocks, channels |-> channels,
              use_fp16 |-> use_fp16,
              dtype |-> IF use_fp16 THEN "float16" ELSE "float32",
              input_layer |-> Conv3dLayer(latent_channels, channels[1]),
              middle_block |-> ResStack(channels[1], num_res_blocks_middle),
              blocks |-> DecoderBlocks(channels, num_res_blocks),
              out_layer |-> out]
    IN  IF ~out.ok THEN out
        ELSE IF use_fp16 THEN DecoderConvertToFp16(d) ELSE d

\* SparseStructureDecoder.forward
DecoderForward(d, x) ==
    LET h0 == BlockForward(d.input_layer, x)
        h1 == SeqForward(d.middle_block, h0)
        h2 == SeqForward(d.blocks, h1)
    IN  BlockForward(d.out_layer, h2)

\* The tensors entering and leaving each member of decoder.blocks.
DecoderTrace(d, x) ==
    ForwardTrace(d.blocks, SeqForward(d.middle_block, BlockForward(d.input_layer, x)))

\* DiagonalGaussianDistribution(h, feat_dim=1).mode() / .sample(): the mean
\* half of the channel axis, or a draw of the same shape.
PosteriorLatent(h) ==
    IF ~h.ok THEN h
    ELSE IF h.s[1] % 2 # 0 THEN ShapeError
    ELSE Tensor(<< h.s[1] \div 2, h.s[2], h.s[3], h.s[4] >>, h.t)

\* =====================================================================
\* DenseShapeVAE: construction, encode, forward
\* =====================================================================

\* DenseShapeVAE.__init__ (norm_type is left at the blocks' default "layer")
DenseShapeVAE(c) ==
    LET enc == SparseStructureEncoder(c.in_channels, c.embed_dim, c.num_res_blocks,
                   c.model_channels_encoder, c.num_res_blocks_middle, "layer", c.use_fp16)
        dec == SparseStructureDecoder(c.out_channels, c.embed_dim, c.num_res_blocks,
                   c.model_channels_decoder, c.num_res_blocks_middle, "layer", c.use_fp16)
    IN  [ok |-> enc.ok /\ dec.ok, encoder |-> enc, decoder |-> dec, embed_dim |-> c.embed_dim]

VARIABLES
    pc,         \* position of the caller
    cfg,        \* constructor arguments of DenseShapeVAE
    vae,        \* the constructed module (encoder, decoder)
    x,          \* input tensor (batch['dense_index'] * 2.0 - 1.0 keeps shape and type)
    h,          \* encoder output
    z,          \* latent handed to the decoder
    y,          \* decoder output
    sampled,    \* encode: sample_posterior
    rs_pc,      \* resample block under construction: position
    rs_args,    \* its constructor arguments
    rs_blk,     \* the constructed block, or the error raised
    rs_out,     \* shape its forward returned
    rb_pc,      \* residual block: position
    rb,         \* its parameters
    rb_x,       \* its input values
    rb_y,       \* its output values
    m_pc,       \* mesh extraction: position
    m_args,     \* arguments of decode_mesh / dense2mesh
    m_x,        \* decoder logits, one grid per batch item
    m_i,        \* loop index
    m_out       \* outputs / meshes appended so far

vaeVars == << pc, cfg, vae, x, h, z, y, sampled >>
rsVars == << rs_pc, rs_args, rs_blk, rs_out >>
rbVars == << rb_pc, rb, rb_x, rb_y >>
meshVars == << m_pc, m_args, m_x, m_i, m_out >>
vars == << vaeVars, rsVars, rbVars, meshVars >>

None == [ok |-> FALSE, error |-> "none"]

Reverse(s) == [k \in 1..Len(s) |-> s[Len(s) + 1 - k]]
ChannelLists == UNION { [1..n -> Widths] : n \in 1..MaxStages }
Ones(n) == [k \in 1..n |-> 1]
Pow2(n) == 2 ^ n
Stages(channels) == Len(channels)

\* The parts of the state a specification does not exercise stay idle.
VaeIdle ==
    /\ pc = "idle" /\ cfg = None /\ vae = None /\ x = None
    /\ h = None /\ z = None /\ y = None /\ sampled = FALSE
RsIdle == rs_pc = "idle" /\ rs_args = None /\ rs_blk = None /\ rs_out = ERR
RbIdle == rb_pc = "idle" /\ rb = None /\ rb_x = <<>> /\ rb_y = <<>>
MeshIdle == m_pc = "idle" /\ m_args = None /\ m_x = <<>> /\ m_i = 0 /\ m_out = <<>>

\* DenseShapeVAE.__init__
Construct ==
    /\ pc = "init"
    /\ vae' = DenseShapeVAE(cfg)
    /\ pc' = IF vae'.ok THEN "built" ELSE "config_error"
    /\ UNCHANGED << cfg, x, h, z, y, sampled, rsVars, rbVars, meshVars >>

\* DenseShapeVAE.encode(batch, sample_posterior)
Encode ==
    /\ pc = "built"
    /\ \E sample_posterior \in BOOLEAN :
        /\ sampled' = sample_posterior
        /\ h' = EncoderForward(vae.encoder, x)
        /\ z' = PosteriorLatent(h')
        /\ pc' = IF z'.ok THEN "encoded" ELSE "failed"
    /\ UNCHANGED << cfg, vae, x, y, rsVars, rbVars, meshVars >>

\* reconst_x = self.decoder(z)
Decode ==
    /\ pc = "encoded"
    /\ y' = DecoderForward(vae.decoder, z)
    /\ pc' = IF y'.ok THEN "done" ELSE "failed"
    /\ UNCHANGED << cfg, vae, x, h, z, sampled, rsVars, rbVars, meshVars >>

\* DenseShapeVAE.forward(batch): encode with the default sample_posterior, then decode
Forward ==
    /\ pc = "built"
    /\ sampled' = TRUE
    /\ h' = EncoderForward(vae.encoder, x)
    /\ z' = PosteriorLatent(h')
    /\ y' = IF z'.ok THEN DecoderForward(vae.decoder, z') ELSE y
    /\ pc' = IF z'.ok /\ y'.ok THEN "done" ELSE "failed"
    /\ UNCHANGED << cfg, vae, x, rsVars, rbVars, meshVars >>

\* ---------------------------------------------------------------------
\* Specification of the shape pipeline: construct, encode, decode.
\* ---------------------------------------------------------------------
Spatial(s) == << s[2], s[3], s[4] >>

ShapeConfigs ==
    { [ in_channels |-> 1, out_channels |-> oc, embed_dim |-> e,
        model_channels_encoder |-> ce, model_channels_decoder |-> cd,
        num_res_blocks |-> nr, num_res_blocks_middle |-> nm, use_fp16 |-> FALSE ] :
      oc \in {1, 2}, e \in {1, 2}, ce \in ChannelLists,
      cd \in ChannelLists, nr \in {0, MaxRes}, nm \in {0, 2} }

\* Inputs: float32 grids; the three axes are treated alike by every layer, so
\* the sizes are drawn in non-decreasing order.
ShapeInputs ==
    { Tensor(<< 1, d, hh, w >>, "float32") :
        d \in 1..MaxSize, hh \in 1..MaxSize, w \in 1..MaxSize }

InitShape ==
    /\ pc = "init"
    /\ cfg \in { c \in ShapeConfigs :
                   \/ c.model_channels_decoder = Reverse(c.model_channels_encoder)
                   \/ c.model_channels_decoder = Ones(Len(c.model_channels_decoder)) }
    /\ x \in { t \in ShapeInputs : t.s[2] <= t.s[3] /\ t.s[3] <= t.s[4] }
    /\ vae = None /\ h = None /\ z = None /\ y = None /\ sampled = FALSE
    /\ RsIdle /\ RbIdle /\ MeshIdle

NextShape == Construct \/ Encode \/ Decode \/ Forward

SpecShape == InitShape /\ [][NextShape]_vars

EncStages == Stages(cfg.model_channels_encoder)
DecStages == Stages(cfg.model_channels_decoder)
EncoderRan == pc \in {"encoded", "done", "failed"}
DecoderRan == pc \in {"done", "failed"} /\ z.ok
Divisible(s, n) == s[2] % n = 0 /\ s[3] % n = 0 /\ s[4] % n = 0
CountKind(blocks, kind) == Cardinality({ k \in DOMAIN blocks : blocks[k].kind = kind })

\* Every residual block of the list returns the spatial size it was given.
ResKeepsSize(blocks, tr) ==
    \A k \in DOMAIN blocks :
        blocks[k].kind = "res" =>
            tr[k + 1].ok /\ Spatial(tr[k + 1].s) = Spatial(tr[k].s)

Symmetric ==
    /\ cfg.model_channels_decoder = Reverse(cfg.model_channels_encoder)
    /\ cfg.in_channels = cfg.out_channels

Modes == {"conv", "avgpool", "nearest", "bilinear"}

InitResample ==
    /\ rs_pc = "init"
    /\ rs_args \in [ kind : {"down", "up"}, mode : Modes,
                     in_channels : Widths, out_channels : Widths,
                     s : { << c, d, 2, 2 >> : c \in Widths, d \in 1..MaxSize } ]
    /\ rs_blk = None /\ rs_out = ERR
    /\ VaeIdle /\ RbIdle /\ MeshIdle

\* DownsampleBlock3d(in_channels, out_channels, mode)
ConstructDownsample ==
    /\ rs_pc = "init" /\ rs_args.kind = "down"
    /\ rs_blk' = DownsampleBlock3d(rs_args.in_channels, rs_args.out_channels, rs_args.mode)
    /\ rs_pc' = IF rs_blk'.ok THEN "built" ELSE "rejected"
    /\ UNCHANGED << rs_args, rs_out, vaeVars, rbVars, meshVars >>

\* UpsampleBlock3d(in_channels, out_channels, mode)
ConstructUpsample ==
    /\ rs_pc = "init" /\ rs_args.kind = "up"
    /\ rs_blk' = UpsampleBlock3d(rs_args.in_channels, rs_args.out_channels, rs_args.mode)
    /\ rs_pc' = IF rs_blk'.ok THEN "built" ELSE "rejected"
    /\ UNCHANGED << rs_args, rs_out, vaeVars, rbVars, meshVars >>

\* block.forward(x) of the constructed block
ResampleForward ==
    /\ rs_pc = "built"
    /\ rs_out' = BlockShape(rs_blk, rs_args.s)
    /\ rs_pc' = IF rs_out' = ERR THEN "failed" ELSE "done"
    /\ UNCHANGED << rs_args, rs_blk, vaeVars, rbVars, meshVars >>

NextResample == ConstructDownsample \/ ConstructUpsample \/ ResampleForward

SpecResample == InitResample /\ [][NextResample]_vars

Recognised(kind) == IF kind = "down" THEN {"conv", "avgpool"} ELSE {"conv", "nearest"}
IdentityMode(kind) == IF kind = "down" THEN "avgpool" ELSE "nearest"
MustReject(a) ==
    \/ a.mode \notin Recognised(a.kind)
    \/ (a.mode = IdentityMode(a.kind) /\ a.in_channels # a.out_channels)

\* C4: construction raises and yields no block exactly when the mode is not
\* one of the block's two modes, or the mode is the pooling / nearest one and
\* in_channels differs from out_channels; otherwise it succeeds.
InvC4 ==
    rs_pc \notin {"idle", "init"} =>
        /\ MustReject(rs_args) <=> ~rs_blk.ok
        /\ ~rs_blk.ok => (rs_pc = "rejected" /\ "kind" \notin DOMAIN rs_blk
                            /\ rs_blk.error = "AssertionError")
        /\ rs_blk.ok => (rs_blk.kind = rs_args.kind
                            /\ rs_blk.has_conv = (rs_args.mode = "conv"))

\* An avgpool downsample with unequal channel counts has been rejected.
WitC4 ==
    /\ rs_pc = "rejected" /\ rs_args.kind = "down" /\ rs_args.mode = "avgpool"
    /\ rs_args.in_channels # rs_args.out_channels

\* ---------------------------------------------------------------------
\* Specification of precision conversion: construct with or without
\* use_fp16, then any sequence of conversions and forward calls.
\* ---------------------------------------------------------------------
DTypes == {"float16", "float32"}

PrecConfigs ==
    { [ in_channels |-> 1, out_channels |-> 1, embed_dim |-> 1,
        model_channels_encoder |-> Ones(n), model_channels_decoder |-> Ones(n),
        num_res_blocks |-> nr, num_res_blocks_middle |-> nm, use_fp16 |-> f ] :
      n \in 1..MaxStages, nr \in 0..MaxRes, nm \in {0, 2}, f \in BOOLEAN }

InitPrec ==
    /\ pc = "init"
    /\ cfg \in PrecConfigs
    /\ x \in { Tensor(<< 1, Pow2(MaxStages - 1), Pow2(MaxStages - 1), Pow2(MaxStages - 1) >>, t) :
                 t \in DTypes }
    /\ vae = None /\ h = None /\ z = None /\ y = None /\ sampled = FALSE
    /\ RsIdle /\ RbIdle /\ MeshIdle

\* encoder.convert_to_fp16()
EncToFp16 ==
    /\ pc = "built"
    /\ vae' = [vae EXCEPT !.encoder = EncoderConvertToFp16(@)]
    /\ UNCHANGED << pc, cfg, x, h, z, y, sampled, rsVars, rbVars, meshVars >>

\* encoder.convert_to_fp32()
EncToFp32 ==
    /\ pc = "built"
    /\ vae' = [vae EXCEPT !.encoder = EncoderConvertToFp32(@)]
    /\ UNCHANGED << pc, cfg, x, h, z, y, sampled, rsVars, rbVars, meshVars >>

\* decoder.convert_to_fp16()
DecToFp16 ==
    /\ pc = "built"
    /\ vae' = [vae EXCEPT !.decoder = DecoderConvertToFp16(@)]
    /\ UNCHANGED << pc, cfg, x, h, z, y, sampled, rsVars, rbVars, meshVars >>

\* decoder.convert_to_fp32()
DecToFp32 ==
    /\ pc = "built"
    /\ vae' = [vae EXCEPT !.decoder = DecoderConvertToFp32(@)]
    /\ UNCHANGED << pc, cfg, x, h, z, y, sampled, rsVars, rbVars, meshVars >>

\* h = encoder(x)
EncoderCall ==
    /\ pc = "built"
    /\ h' = EncoderForward(vae.encoder, x)
    /\ UNCHANGED << pc, cfg, vae, x, z, y, sampled, rsVars, rbVars, meshVars >>

\* y = decoder(z) for a latent of either numeric type
DecoderCall ==
    /\ pc = "built"
    /\ \E t \in DTypes :
        /\ z' = Tensor(<< cfg.embed_dim, 1, 1, 1 >>, t)
        /\ y' = DecoderForward(vae.decoder, z')
    /\ UNCHANGED << pc, cfg, vae, x, h, sampled, rsVars, rbVars, meshVars >>

NextPrec ==
    Construct \/ EncToFp16 \/ EncToFp32 \/ DecToFp16 \/ DecToFp32
        \/ EncoderCall \/ DecoderCall

SpecPrec == InitPrec /\ [][NextPrec]_vars

AllOfType(layers, t) == \A k \in DOMAIN layers : layers[k].dtype = t

\* C7: whatever conversions were made (the constructor's included), the
\* encoder's input_layer and out_layer keep their construction type float32,
\* and every member of blocks and middle_block has the type recorded in the
\* encoder's dtype, which agrees with use_fp16.
InvC7 ==
    pc = "built" =>
        LET e == vae.encoder IN
        /\ e.input_layer.dtype = "float32"
        /\ e.out_layer.dtype = "float32"
        /\ AllOfType(e.blocks, e.dtype)
        /\ AllOfType(e.middle_block, e.dtype)
        /\ e.use_fp16 <=> (e.dtype = "float16")

\* An encoder constructed in float32 has had a non-empty torso converted to
\* float16.
WitC7 ==
    /\ pc = "built" /\ ~cfg.use_fp16 /\ vae.encoder.use_fp16
    /\ Len(vae.encoder.blocks) > 1 /\ Len(vae.encoder.middle_block) > 0
    /\ vae.encoder.blocks[1].dtype = "float16"

\* C8: after any sequence of conversions, input_layer, middle_block, blocks
\* and out_layer of the decoder all have the type recorded in its dtype.
OrigC8 ==
    pc = "built" =>
        LET d == vae.decoder IN
        /\ d.input_layer.dtype = d.dtype
        /\ d.out_layer.dtype = d.dtype
        /\ AllOfType(d.blocks, d.dtype)
        /\ AllOfType(d.middle_block, d.dtype)

\* C10: a forward call of the encoder on an input of the input projection's
\* type meets no layer whose parameters are of another type than its input.
OrigC10 ==
    (pc = "built" /\ h # None /\ x.t = vae.encoder.input_layer.dtype) => h # TypeError

\* =====================================================================
\* ResBlock3d on values.  A value tensor is [channel -> sequence over the D
\* axis] with H = W = 1: under padding 1 the off-centre H / W taps of a 3x3x3
\* kernel then meet only zero padding, so a kernel is its centre column
\* w[out][in][k].  Values are integers.
\* =====================================================================
RECURSIVE SeqSum(_)
SeqSum(s) == IF s = <<>> THEN 0 ELSE Head(s) + SeqSum(Tail(s))

\* nn.Conv3d parameters with every weight a and every bias b
ConvParams(cin, cout, kernel, a, b) ==
    [ cin |-> cin, cout |-> cout, kernel |-> kernel,
      w |-> [co \in 1..cout |-> [ci \in 1..cin |-> [k \in 1..kernel |-> a]]],
      b |-> [co \in 1..cout |-> b] ]

\* zero_module(module): every parameter set to zero
zero_module(cv) ==
    [ cv EXCEPT !.w = [co \in 1..cv.cout |-> [ci \in 1..cv.cin |-> [k \in 1..cv.kernel |-> 0]]],
                !.b = [co \in 1..cv.cout |-> 0] ]

\* conv(x) with padding (kernel - 1) / 2 and stride 1
ConvApply(cv, xv) ==
    LET L == Len(xv[1])
        pad == (cv.kernel - 1) \div 2
        X(ci, j) == IF j \in 1..L THEN xv[ci][j] ELSE 0
        Term(co, i, n) ==
            LET ci == ((n - 1) \div cv.kernel) + 1
                k  == ((n - 1) % cv.kernel) + 1
            IN  cv.w[co][ci][k] * X(ci, i + k - 1 - pad)
    IN  [co \in 1..cv.cout |->
            [i \in 1..L |->
                cv.b[co] + SeqSum([n \in 1..(cv.cin * cv.kernel) |-> Term(co, i, n)])]]

\* ChannelLayerNorm32: centre each position over the channel axis (kept in
\* integers: C * (x - mean), no division by the deviation).
NormApply(xv) ==
    LET C == Len(xv)
        Tot(i) == SeqSum([c \in 1..C |-> xv[c][i]])
    IN  [c \in 1..C |-> [i \in 1..Len(xv[1]) |-> C * xv[c][i] - Tot(i)]]

\* F.silu rounded to the nearest integer: v * sigmoid(v) lies in (v - 1/2, v]
\* for v >= 1 and in (-1/2, 0] for v <= 0.
SiluApply(xv) ==
    [c \in 1..Len(xv) |-> [i \in 1..Len(xv[1]) |-> IF xv[c][i] > 0 THEN xv[c][i] ELSE 0]]

\* h + skip_connection(x)
AddValues(a, b) == [c \in 1..Len(a) |-> [i \in 1..Len(a[1]) |-> a[c][i] + b[c][i]]]

ResBlock3dInitNoZero(channels, out_channels, a1, b1, a2, b2) ==
    LET oc == IF out_channels = 0 THEN channels ELSE out_channels
    IN  [ ok |-> TRUE, channels |-> channels, out_channels |-> oc,
          conv1 |-> ConvParams(channels, oc, 3, a1, b1),
          conv2 |-> ConvParams(oc, oc, 3, a1, b1),
          skip_connection |-> IF channels # oc THEN ConvParams(channels, oc, 1, a2, b2)
                              ELSE [kernel |-> 0] ]

\* ResBlock3d.__init__; a1, b1 (conv1) and a2, b2 (skip projection) are the
\* values the default initialisation happened to draw.  skip_connection with
\* kernel 0 is nn.Identity().
ResBlock3dInit(channels, out_channels, a1, b1, a2, b2) ==
    LET oc == IF out_channels = 0 THEN channels ELSE out_channels
    IN  [ ok |-> TRUE, channels |-> channels, out_channels |-> oc,
          conv1 |-> ConvParams(channels, oc, 3, a1, b1),
          conv2 |-> zero_module(ConvParams(oc, oc, 3, a1, b1)),
          skip_connection |-> IF channels # oc THEN ConvParams(channels, oc, 1, a2, b2)
                              ELSE [kernel |-> 0] ]

\* self.skip_connection(x)
SkipApply(sk, xv) == IF sk.kernel = 0 THEN xv ELSE ConvApply(sk, xv)

\* The tensor v itself; the comparisons make TLC compute an intermediate
\* tensor once rather than once per element read.
Eval(v) == IF v # <<>> /\ \A c \in DOMAIN v : v[c] # <<>> THEN v ELSE v

\* ResBlock3d.forward
ResBlock3dForward(b, xv) ==
    LET h1 == Eval(NormApply(xv))
        h2 == Eval(SiluApply(h1))
        h3 == Eval(ConvApply(b.conv1, h2))
        h4 == Eval(NormApply(h3))
        h5 == Eval(SiluApply(h4))
        h6 == Eval(ConvApply(b.conv2, h5))
    IN  AddValues(h6, SkipApply(b.skip_connection, xv))

\* ---------------------------------------------------------------------
\* Specification of a residual block: construct, then one forward call.
\* ---------------------------------------------------------------------
Vals == {-1, 0, 2}
InitWeights == {-1, 2}
InitBiases == {0, 1}

InitRes ==
    /\ rb_pc = "init"
    /\ rb_x \in UNION { [1..c -> [1..l -> Vals]] : c \in Widths, l \in 1..MaxLen }
    /\ rb = None /\ rb_y = <<>>
    /\ VaeIdle /\ RsIdle /\ MeshIdle

\* ResBlock3d(channels, out_channels) for an input of `channels` channels
RbConstruct ==
    /\ rb_pc = "init"
    /\ \E oc \in {0} \cup Widths, a1 \in InitWeights, b1 \in InitBiases,
          a2 \in InitWeights, b2 \in InitBiases :
          rb' = ResBlock3dInit(Len(rb_x), oc, a1, b1, a2, b2)
    /\ rb_pc' = "built"
    /\ UNCHANGED << rb_x, rb_y, vaeVars, rsVars, meshVars >>

\* block(x)
RbForward ==
    /\ rb_pc = "built"
    /\ rb_y' = ResBlock3dForward(rb, rb_x)
    /\ rb_pc' = "done"
    /\ UNCHANGED << rb, rb_x, vaeVars, rsVars, meshVars >>

NextRes == RbConstruct \/ RbForward

SpecRes == InitRes /\ [][NextRes]_vars

\* C3: a freshly constructed block with equal channel counts has the identity
\* as shortcut and returns its input; with unequal counts the shortcut is a
\* 1x1x1 convolution and the block returns that projection of its input.
InvC3 ==
    rb_pc = "done" =>
        IF rb.channels = rb.out_channels
        THEN rb.skip_connection.kernel = 0 /\ rb_y = rb_x
        ELSE /\ rb.skip_connection.kernel = 1
             /\ rb.skip_connection.cin = rb.channels
             /\ rb.skip_connection.cout = rb.out_channels
             /\ rb_y = ConvApply(rb.skip_connection, rb_x)

\* An equal-channel block whose first convolution yields non-zero values has
\* returned a non-constant input.
WitC3 ==
    /\ rb_pc = "done" /\ rb.channels = 2 /\ rb.out_channels = 2
    /\ Len(rb_x[1]) = 2 /\ rb_x[1] = << -1, 2 >> /\ rb_x[2] = << 2, 0 >>
    /\ rb_y = rb_x
    /\ \E c \in 1..2, i \in 1..2 :
          ConvApply(rb.conv1, SiluApply(NormApply(rb_x)))[c][i] # 0

\* =====================================================================
\* decode_mesh / dense2mesh.  A grid is g[d][h][w] (one channel); probabilities
\* and the iso level are in thousandths; a vertex coordinate is in
\* thousandths of a voxel index.
\* =====================================================================
Shape3(g) == << Len(g), Len(g[1]), Len(g[1][1]) >>
Voxels(g) == (1..Len(g)) \X (1..Len(g[1])) \X (1..Len(g[1][1]))
At(g, p) == g[p[1]][p[2]][p[3]]

\* x.sigmoid() in thousandths, for the logits the decoder outputs are drawn from
Sigmoid(l) == CASE l = -3 -> 47 [] l = 0 -> 500 [] l = 1 -> 731

\* (occ >= threshold).float()
Binarize(g, threshold) ==
    [d \in 1..Len(g) |-> [hh \in 1..Len(g[1]) |-> [w \in 1..Len(g[1][1]) |->
        IF Sigmoid(g[d][hh][w]) >= threshold THEN 1000 ELSE 0]]]

\* occ.unsqueeze(0).nonzero(): the indices <<0, d, h, w>> (from 0) of the
\* non-zero entries, in row-major order
Nonzero(occ) ==
    LET s == Shape3(occ)
        Idx(n) == << 0, (n - 1) \div (s[2] * s[3]),
                        ((n - 1) \div s[3]) % s[2],
                        (n - 1) % s[3] >>
        all == [n \in 1..(s[1] * s[2] * s[3]) |-> Idx(n)]
        IsSet(i) == occ[i[2] + 1][i[3] + 1][i[4] + 1] # 0
    IN  SelectSeq(all, IsSet)

Unit(a) == [k \in 1..3 |-> IF k = a THEN 1 ELSE 0]
Plus(p, q) == [k \in 1..3 |-> p[k] + q[k]]

\* measure.marching_cubes(volume, level, method="lewiner"):
\*   - a level outside [volume.min(), volume.max()] raises ValueError;
\*   - a corner is inside when its value exceeds the level; every grid edge
\*     with one corner inside carries a vertex, placed by linear interpolation
\*     of the two values;
\*   - every cell with corners on both sides emits triangles (faces holds the
\*     origins of those cells);
\*   - no vertex at all raises RuntimeError.
marching_cubes(volume, level) ==
    LET V == Voxels(volume)
        vals == { At(volume, p) : p \in V }
        Inside(p) == At(volume, p) > level
        Edges == { << p, a >> \in V \X (1..3) :
                     Plus(p, Unit(a)) \in V /\ Inside(p) # Inside(Plus(p, Unit(a))) }
        Vertex(e) ==
            LET p == e[1]
                a == e[2]
                v0 == At(volume, p)
                v1 == At(volume, Plus(p, Unit(a)))
                off == IF v1 > v0 THEN ((level - v0) * 1000) \div (v1 - v0)
                       ELSE ((v0 - level) * 1000) \div (v0 - v1)
            IN  [k \in 1..3 |-> (p[k] - 1) * 1000 + (IF k = a THEN off ELSE 0)]
        Corners(c) == { q \in V : \A k \in 1..3 : q[k] \in {c[k], c[k] + 1} }
        Cells == { c \in V : \A k \in 1..3 : c[k] < Shape3(volume)[k] }
        Mixed == { c \in Cells : \E q1, q2 \in Corners(c) : Inside(q1) # Inside(q2) }
    IN  IF \E k \in 1..3 : Shape3(volume)[k] < 2 THEN [ok |-> FALSE, error |-> "ValueError"]
        ELSE IF \A v \in vals : level < v THEN [ok |-> FALSE, error |-> "ValueError"]
        ELSE IF \A v \in vals : level > v THEN [ok |-> FALSE, error |-> "ValueError"]
        ELSE IF Edges = {} THEN [ok |-> FALSE, error |-> "RuntimeError"]
        ELSE [ok |-> TRUE, vertices |-> { Vertex(e) : e \in Edges }, faces |-> Mixed]

RescaleNoShift(v, voxel_resolution) ==
    [k \in 1..3 |-> 2 * v[k]]

\* vertices / voxel_resolution * 2 - 1, as the numerator over the
\* denominator 1000 * voxel_resolution
Rescale(v, voxel_resolution) ==
    [k \in 1..3 |-> 2 * v[k] - 1000 * voxel_resolution]

\* trimesh.Trimesh(vertices, faces) of the rescaled vertices
Trimesh(mc, voxel_resolution) ==
    [ ok |-> TRUE, den |-> 1000 * voxel_resolution,
      vertices |-> { Rescale(v, voxel_resolution) : v \in mc.vertices },
      faces |-> mc.faces ]

\* the cut-off 0.1 of dense2mesh, in thousandths
OccThreshold == 100

\* dense2mesh: the body of one loop iteration
DenseItem(g, voxel_resolution, mc_threshold) ==
    LET occ == Binarize(g, OccThreshold)
        mc == marching_cubes(occ, mc_threshold)
    IN  IF mc.ok THEN Trimesh(mc, voxel_resolution) ELSE mc

\* decode_mesh, return_index=True: the body of one loop iteration
IndexItem(g, mc_threshold) ==
    Nonzero(Binarize(g, mc_threshold))

\* ---------------------------------------------------------------------
\* Specification of decode_mesh: the decoder has produced the logits m_x;
\* the loop then handles one batch item per step.
\* ---------------------------------------------------------------------
Uniform(l) == << << l, l >>, << l, l >> >>
Slices == { Uniform(-3), Uniform(0), << << 1, -3 >>, << -3, 0 >> >> }
Grids(D) == [1..D -> Slices]
Thresholds == {20, 500, 600}

InitMesh ==
    /\ m_pc = "loop"
    /\ m_args \in [ return_index : BOOLEAN, voxel_resolution : 1..MaxR,
                    mc_threshold : Thresholds ]
    /\ m_x \in UNION { [1..B -> Grids(D)] :
                         << B, D >> \in { bd \in (1..MaxSlices) \X (2..MaxSlices) :
                                            bd[1] * bd[2] <= MaxSlices } }
    /\ m_i = 0 /\ m_out = <<>>
    /\ VaeIdle /\ RsIdle /\ RbIdle

\* decode_mesh, return_index=True: one iteration of `for i in range(len(x))`
IndexStep ==
    /\ m_pc = "loop" /\ m_args.return_index /\ m_i < Len(m_x)
    /\ m_out' = Append(m_out, IndexItem(m_x[m_i + 1], m_args.mc_threshold))
    /\ m_i' = m_i + 1
    /\ UNCHANGED << m_pc, m_args, m_x, vaeVars, rsVars, rbVars >>

\* dense2mesh: one iteration of `for i in range(len(x))`; an exception of
\* marching_cubes leaves the call
MeshStep ==
    /\ m_pc = "loop" /\ ~m_args.return_index /\ m_i < Len(m_x)
    /\ LET mesh == DenseItem(m_x[m_i + 1], m_args.voxel_resolution, m_args.mc_threshold)
       IN  IF mesh.ok
           THEN /\ m_out' = Append(m_out, mesh)
                /\ m_i' = m_i + 1
                /\ m_pc' = m_pc
           ELSE /\ m_pc' = "raised"
                /\ UNCHANGED << m_out, m_i >>
    /\ UNCHANGED << m_args, m_x, vaeVars, rsVars, rbVars >>

\* return outputs
MeshReturn ==
    /\ m_pc = "loop" /\ m_i = Len(m_x)
    /\ m_pc' = "returned"
    /\ UNCHANGED << m_args, m_x, m_i, m_out, vaeVars, rsVars, rbVars >>

NextMesh == IndexStep \/ MeshStep \/ MeshReturn

SpecMesh == InitMesh /\ [][NextMesh]_vars

MeshCallOver == m_pc \in {"returned", "raised"}
InUnitCube(mesh) ==
    \A v \in mesh.vertices : \A k \in 1..3 : -mesh.den <= v[k] /\ v[k] <= mesh.den
GridFits(g, R) == \A k \in 1..3 : Shape3(g)[k] - 1 <= R

\* C5 as stated: every vertex coordinate of every mesh dense2mesh returns
\* lies in [-1, 1], whatever the grid size and voxel_resolution.
OrigC5 ==
    (m_pc = "returned" /\ ~m_args.return_index) =>
        \A i \in 1..Len(m_out) : InUnitCube(m_out[i])

\* C5 amended: every vertex coordinate of a returned mesh lies in [-1, 1]
\* when voxel_resolution is at least the grid size minus one on every axis.
InvC5 ==
    (m_pc = "returned" /\ ~m_args.return_index) =>
        \A i \in 1..Len(m_out) :
            GridFits(m_x[i], m_args.voxel_resolution) => InUnitCube(m_out[i])

\* A mesh of a grid that fits voxel_resolution has been returned and has a
\* vertex on the far face of the cube.
WitC5 ==
    /\ m_pc = "returned" /\ ~m_args.return_index /\ Len(m_out) >= 1
    /\ Len(m_x[1]) = 3 /\ m_args.voxel_resolution = 2
    /\ \E v \in m_out[1].vertices : v[1] = m_out[1].den

NoOccupied(g) == \A p \in Voxels(g) : Sigmoid(At(g, p)) < OccThreshold

\* C6: for a batch item whose grid has no occupied voxel, dense2mesh returns
\* a mesh without faces.
OrigC6 ==
    (MeshCallOver /\ ~m_args.return_index) =>
        \A i \in 1..Len(m_x) :
            NoOccupied(m_x[i]) =>
                (m_pc = "returned" /\ i <= Len(m_out) /\ m_out[i].faces = {})

\* C9: decode_mesh returns one output per batch item; with return_index the
\* output of item i lists exactly the voxels of item i with sigmoid(logit) >=
\* mc_threshold; otherwise the mesh of item i is the iso surface at
\* mc_threshold of item i binarized at 0.1.
OrigC9 ==
    MeshCallOver =>
        /\ m_pc = "returned"
        /\ Len(m_out) = Len(m_x)
        /\ \A i \in 1..Len(m_x) :
              IF m_args.return_index
              THEN { m_out[i][n] : n \in 1..Len(m_out[i]) } =
                      { << 0, p[1] - 1, p[2] - 1, p[3] - 1 >> :
                          p \in { q \in Voxels(m_x[i]) :
                                    Sigmoid(At(m_x[i], q)) >= m_args.mc_threshold } }
              ELSE LET occ == [d \in 1..Len(m_x[i]) |-> [hh \in 1..2 |-> [w \in 1..2 |->
                                 IF Sigmoid(m_x[i][d][hh][w]) >= 100 THEN 1000 ELSE 0]]]
                   IN  m_out[i] = Trimesh(marching_cubes(occ, m_args.mc_threshold),
                                          m_args.voxel_resolution)

\* What holds of decode_mesh whenever it does return: the per-item outputs
\* and the two cut-offs are as C9 describes them.
DecodeMeshWhenReturned == (m_pc = "returned") => OrigC9

====
